---- MODULE Spec2Model ----
(***************************************************************************)
(* Model of the MMS promotion-planning backend:                            *)
(*   - engines/learning_engine.py  (LearningEngine)                        *)
(*   - api/routes/data.py          (GET /baseline)                         *)
(*   - api/routes/scenarios.py     (scenario CRUD and re-evaluation)       *)
(*   - api/routes/discovery.py     (opportunities, gap percentages)        *)
(*   - api/auth_store.py, api/routes/auth.py, api/dependencies.py          *)
(*                                 (API keys, auth_guard, rate limiting)   *)
(*                                                                         *)
(* Python floats are modelled as exact rationals <<num, den>> in lowest    *)
(* terms with den > 0, so that equality of values is structural equality.  *)
(* Optional values are modelled as sequences: <<>> is None, <<x>> is x.    *)
(***************************************************************************)
EXTENDS Integers, Sequences, FiniteSets, TLC

VARIABLES
    \* --- calculate_model_adjustments as a pure function (SpecAdjust)
    adj_in,         \* the post_mortems argument
    adj_out,        \* None before the call, Some(adjustments) after it
    \* --- the uplift model versions (SpecLearn, SpecConc)
    store,          \* heap of UpliftModel objects, index = object identity
    current,        \* index of the current model
    origin,         \* origin[i] = index of the model store[i] was learned from (0: given)
    lastOp,         \* the last engine call, the model and the number of reports given, its outcome
    \* --- update_uplift_model step by step, with a concurrent reader (SpecConc)
    upd,            \* the running update call's frame
    rd,             \* the reader's frame
    \* --- GET /baseline (SpecBaseline)
    sales_rows,     \* the historical sales rows the sales tool reads
    projection,     \* the baseline engine's projection for each day
    bl_req,         \* the request's query parameters
    bl_resp,        \* None before the call, Some(BaselineForecast) after it
    \* --- the scenario routes over the database (SpecScenario)
    db,             \* committed rows: scenarios, kpis, validations
    next_uuid,      \* the next unused scenario id (uuid4)
    next_row,       \* the next unused row id; row ids follow creation order
    fk_enforced,    \* whether the database enforces foreign keys
    sc_last,        \* the last request and its outcome
    sc_eval,        \* the scenario last handed to scenario_agent.evaluate_scenario
    \* --- _persist_validation as a pure function (SpecValidation)
    val_in,         \* the ValidationReport the validation engine returned
    val_out,        \* None before the call, Some(stored row and returned report) after it
    \* --- GET /opportunities as a pure function (SpecOpportunities)
    opp_agg,        \* the department rows the sales tool returns
    opp_out,        \* None before the call, Some(list of opportunities) after it
    \* --- the gap percentages of GET /gaps and GET /dashboard (SpecGaps)
    gap_in,         \* the targets and the gaps the baseline engine computed
    gap_out,        \* None before a call, Some(route, outcome) after it
    \* --- API keys and auth_guard (SpecAuth)
    key_store,      \* tmp/api_keys.json: token -> record
    api_keys_mem,   \* routes/auth.py _API_KEYS: the tokens issued by this process
    keys_shared,    \* whether dependencies.py sees that same _API_KEYS dict
    environment,    \* os.getenv("ENVIRONMENT", "development").lower()
    env_key,        \* os.getenv("API_KEY")
    clock,          \* datetime.utcnow(), in whole seconds
    key_ops,        \* number of key-management calls so far
    client_known,   \* the tokens API responses have handed out
    revoked_log,    \* the stored tokens revoke_key has run for
    auth_last,      \* the last request through auth_guard and its outcome
    \* --- rate_limit_guard (SpecRateLimit, SpecRateLimitBackends)
    rl_hits,        \* _RATE_LIMIT["hits"]: bucket key -> {"start", "count"}
    rl_redis,       \* the Redis keys: bucket key -> value and expiry time
    rl_now,         \* int(time.time())
    rl_last,        \* the last request and what each limiter answered
    rl_window,      \* per bucket key: the running window's start, requests and admissions
    \* --- add_key and revoke_key calls in flight on the key store (SpecKeyStore)
    ks_calls,       \* per caller: the call it is in and the data it has loaded
    ks_added        \* the tokens add_key has returned

adjVars   == <<adj_in, adj_out>>
learnVars == <<store, current, origin, lastOp>>
concVars  == <<upd, rd>>
baseVars  == <<sales_rows, projection, bl_req, bl_resp>>
scenVars  == <<db, next_uuid, next_row, fk_enforced, sc_last, sc_eval>>
valVars   == <<val_in, val_out>>
coreVars  == <<adjVars, learnVars, concVars, baseVars, scenVars>>
oppVars   == <<opp_agg, opp_out>>
gapVars   == <<gap_in, gap_out>>
authVars  == <<key_store, api_keys_mem, keys_shared, environment, env_key, clock,
               key_ops, client_known, revoked_log, auth_last>>
rlVars    == <<rl_hits, rl_redis, rl_now, rl_last, rl_window>>
ksVars    == <<ks_calls, ks_added>>
lateVars  == <<rlVars, ksVars>>
restVars  == <<valVars, oppVars, gapVars, authVars, lateVars>>
vars      == <<adj_in, adj_out, store, current, origin, lastOp, upd, rd,
               sales_rows, projection, bl_req, bl_resp,
               db, next_uuid, next_row, fk_enforced, sc_last, sc_eval,
               val_in, val_out, opp_agg, opp_out, gap_in, gap_out,
               key_store, api_keys_mem, keys_shared, environment, env_key, clock,
               key_ops, client_known, revoked_log, auth_last,
               rl_hits, rl_redis, rl_now, rl_last, rl_window,
               ks_calls, ks_added>>

-----------------------------------------------------------------------------
(* Optional values *)

None == <<>>
Some(x) == <<x>>

-----------------------------------------------------------------------------
(* Exact rational arithmetic standing for Python float arithmetic *)

Abs(x) == IF x < 0 THEN -x ELSE x

RECURSIVE GCD(_, _)
GCD(a, b) == IF b = 0 THEN a ELSE GCD(b, a % b)

Rat(n, d) ==
    LET g == GCD(Abs(n), Abs(d))
        s == IF d < 0 THEN -1 ELSE 1
    IN  <<(s * n) \div g, (s * d) \div g>>

RInt(n) == <<n, 1>>
RNeg(a) == <<-a[1], a[2]>>
RAdd(a, b) ==
    LET g == GCD(a[2], b[2])
    IN  Rat(a[1] * (b[2] \div g) + b[1] * (a[2] \div g), (a[2] \div g) * b[2])
RMul(a, b) == Rat(a[1] * b[1], a[2] * b[2])
RDiv(a, b) == Rat(a[1] * b[2], a[2] * b[1])
\* Comparison by cross-multiplication, over the reduced denominators.
RLt(a, b) ==
    LET g == GCD(a[2], b[2]) IN a[1] * (b[2] \div g) < b[1] * (a[2] \div g)
RLe(a, b) == ~RLt(b, a)

\* Python's max(a, b) / min(a, b): the first argument unless the second is
\* strictly greater / smaller.
PyMax(a, b) == IF RLt(a, b) THEN b ELSE a
PyMin(a, b) == IF RLt(b, a) THEN b ELSE a

-----------------------------------------------------------------------------
(* Python dicts with string keys: functions on a finite set of strings *)

EmptyDict == <<>>
DictGet(d, k) == IF k \in DOMAIN d THEN Some(d[k]) ELSE None

\* Truthiness of an Optional[float]: None and 0.0 are falsy.
TruthyFloat(o) == o # None /\ o[1][1] # 0

-----------------------------------------------------------------------------
(* Bounds and input domains *)

MaxReports == 3      \* longest post-mortem list given to calculate_model_adjustments
MaxUpdates == 2      \* longest chain of update_uplift_model calls

PctErrors == {-20, -1, 3}
PCT_KEY == "total_sales_pct_error"

\* forecast_accuracy: None, {} or {"total_sales_pct_error": v}
Accuracies ==
    {None, Some(EmptyDict)} \cup
    {Some([k \in {PCT_KEY} |-> RInt(v)]) : v \in PctErrors}

Reports == [forecast_accuracy : Accuracies]

PostMortemLists == UNION {[1..n -> Reports] : n \in 0..MaxReports}

\* The post-mortem batches fed to update_uplift_model: the empty list, batches
\* that carry no error value, and batches whose mean error falls above, inside
\* and below the band the factor is clamped to.
Report(v) == [forecast_accuracy |-> Some([k \in {PCT_KEY} |-> RInt(v)])]
ReportNoAccuracy == [forecast_accuracy |-> None]
ReportEmptyAccuracy == [forecast_accuracy |-> Some(EmptyDict)]

LearnBatches ==
    { <<>>,
      <<ReportNoAccuracy>>,
      <<ReportEmptyAccuracy, Report(-20)>>,
      <<Report(-20), Report(-20)>>,
      <<Report(-1)>>,
      <<Report(3)>>,
      <<Report(-1), Report(3)>>,
      <<Report(-1), ReportNoAccuracy, Report(-1), Report(3)>> }

-----------------------------------------------------------------------------
(* LearningEngine *)

adjustment_floor == Rat(8, 10)
adjustment_cap   == Rat(12, 10)
DAMPING          == Rat(1, 10)

RECURSIVE RSum(_)
RSum(s) == IF s = <<>> THEN RInt(0) ELSE RAdd(s[1], RSum(Tail(s)))

\* The loop of calculate_model_adjustments collecting pct_errors.
RECURSIVE CollectPctErrors(_)
CollectPctErrors(post_mortems) ==
    IF post_mortems = <<>> THEN <<>>
    ELSE LET report    == post_mortems[1]
             fa        == report.forecast_accuracy
             accuracy  == IF fa = None \/ fa[1] = EmptyDict THEN EmptyDict ELSE fa[1]
             pct_error == DictGet(accuracy, PCT_KEY)
             rest      == CollectPctErrors(Tail(post_mortems))
         IN  IF pct_error # None THEN <<pct_error[1]>> \o rest ELSE rest

\* Mutant: the factor is not clamped to [floor, cap].
GlobalFactor_Unclamped(pct_errors) ==
    LET avg_error == RDiv(RSum(pct_errors), RInt(Len(pct_errors)))
    IN  RAdd(RInt(1), RMul(RNeg(avg_error), DAMPING))

GlobalFactor(pct_errors) ==
    LET avg_error == RDiv(RSum(pct_errors), RInt(Len(pct_errors)))
        factor    == RAdd(RInt(1), RMul(RNeg(avg_error), DAMPING))
    IN  PyMax(adjustment_floor, PyMin(adjustment_cap, factor))

\* Mutant: an empty list silently yields no adjustment at all.
EmptyListAdjustments_Silent == EmptyDict

EmptyListAdjustments == [k \in {"global"} |-> RInt(1)]

calculate_model_adjustments(post_mortems) ==
    IF post_mortems = <<>> THEN EmptyListAdjustments
    ELSE LET pct_errors == CollectPctErrors(post_mortems)
         IN  IF pct_errors # <<>>
             THEN [k \in {"global"} |-> GlobalFactor(pct_errors)]
             ELSE [k \in {"global"} |-> RInt(1)]

\* factor = adjustments.get(f"{category}:{channel}") or adjustments.get("global") or 1.0
FactorFor(adjustments, category, channel) ==
    LET byKey  == DictGet(adjustments, category \o ":" \o channel)
        global == DictGet(adjustments, "global")
    IN  IF TruthyFloat(byKey) THEN byKey[1]
        ELSE IF TruthyFloat(global) THEN global[1]
        ELSE RInt(1)

\* Mutant: the clamp uses the bare floor and cap, not scaled by the coefficient.
ClampCoefficient_Unscaled(coef, adjusted) ==
    PyMax(adjustment_floor, PyMin(adjustment_cap, adjusted))

ClampCoefficient(coef, adjusted) ==
    PyMax(RMul(adjustment_floor, coef), PyMin(RMul(adjustment_cap, coef), adjusted))

AdjustedCoefficient(coef, factor) == ClampCoefficient(coef, RMul(coef, factor))

NewVersion(version) == version \o "-learned"

\* Mutant: last_updated is refreshed instead of carried over.
NewLastUpdated_Refreshed(current_model) == current_model.last_updated + 1

NewLastUpdated(current_model) == current_model.last_updated

NewCoefficients(coefficients, adjustments) ==
    [category \in DOMAIN coefficients |->
        [channel \in DOMAIN coefficients[category] |->
            AdjustedCoefficient(coefficients[category][channel],
                                FactorFor(adjustments, category, channel))]]

\* Mutant: an empty post-mortem list is accepted, only a missing model raises.
InputsMissing_EmptyListAccepted(current_model, post_mortems) ==
    current_model = None

\* "if not post_mortems or not current_model": an empty list or None.
InputsMissing(current_model, post_mortems) ==
    post_mortems = <<>> \/ current_model = None

\* current_model is None or Some(model).  The result is a raised error or a
\* returned model.
update_uplift_model(current_model, post_mortems) ==
    IF InputsMissing(current_model, post_mortems)
    THEN [raised |-> "ValueError", value |-> None]
    ELSE LET adjustments == calculate_model_adjustments(post_mortems)
             model       == current_model[1]
         IN  [raised |-> "",
              value  |-> Some([coefficients |-> NewCoefficients(model.coefficients, adjustments),
                               version      |-> NewVersion(model.version),
                               last_updated |-> NewLastUpdated(model)])]

\* The heap after update_uplift_model returned new_model: new_coefficients and
\* the UpliftModel built from it are fresh objects; the argument is only read.
\* Mutant: the adjusted coefficients are also written into the argument.
HeapAfterUpdate_InPlace(heap, input, new_model) ==
    Append([heap EXCEPT ![input].coefficients = new_model.coefficients], new_model)

HeapAfterUpdate(heap, input, new_model) == Append(heap, new_model)

\* The heap after one pass of the inner loop: the adjusted value goes into the
\* local new_coefficients, no stored model is written.
\* Mutant: the value is written into the argument's own coefficient map.
HeapAfterEntry_InPlace(heap, input, category, channel, adjusted) ==
    [heap EXCEPT ![input].coefficients[category][channel] = adjusted]

HeapAfterEntry(heap, input, category, channel, adjusted) == heap

-----------------------------------------------------------------------------
(* SpecAdjust: calculate_model_adjustments over every bounded input *)

AdjIdle == adj_in = <<>> /\ adj_out = None

AdjInit == adj_in \in PostMortemLists /\ adj_out = None

Calculate ==
    /\ adj_out = None
    /\ adj_out' = Some(calculate_model_adjustments(adj_in))
    /\ UNCHANGED adj_in

-----------------------------------------------------------------------------
(* SpecLearn: the chain of model versions *)

InitialModels ==
    { [coefficients |-> [c \in {"TV", "GAMING"} |->
                            IF c = "TV"
                            THEN [ch \in {"online", "store"} |->
                                     IF ch = "online" THEN Rat(3, 2) ELSE Rat(0, 1)]
                            ELSE [ch \in {"online"} |-> Rat(-1, 2)]],
       version |-> "v1", last_updated |-> 1],
      [coefficients |-> [c \in {"TV"} |-> [ch \in {"online"} |-> Rat(9, 10)]],
       version |-> "v1-learned", last_updated |-> 2],
      [coefficients |-> [c \in {"AUDIO"} |-> [ch \in {"store"} |-> Rat(-6, 5)]],
       version |-> "demo-1", last_updated |-> 3] }

NoOp == [op |-> "init", input |-> 0, reports |-> 0, raised |-> "", result |-> 0]

LearnIdle ==
    /\ store = <<>>
    /\ current = 0
    /\ origin = <<>>
    /\ lastOp = NoOp

LearnInit ==
    /\ \E m \in InitialModels : store = <<m>>
    /\ current = 1
    /\ origin = <<0>>
    /\ lastOp = NoOp

\* calculate_model_adjustments called on its own: computes a proposal.
Propose ==
    /\ \E post_mortems \in LearnBatches :
          lastOp' = [op |-> "calculate", input |-> 0, reports |-> Len(post_mortems),
                     raised |-> "", result |-> 0]
    /\ UNCHANGED <<store, current, origin>>

\* update_uplift_model(store[i] or None, post_mortems); the caller makes the
\* returned model the current one.
Update ==
    \E i \in 0..Len(store), post_mortems \in LearnBatches :
        LET arg == IF i = 0 THEN None ELSE Some(store[i])
            r   == update_uplift_model(arg, post_mortems)
        IN  IF r.raised # ""
            THEN /\ lastOp' = [op |-> "update", input |-> i, reports |-> Len(post_mortems),
                               raised |-> r.raised, result |-> 0]
                 /\ UNCHANGED <<store, current, origin>>
            ELSE /\ Len(store) <= MaxUpdates
                 /\ store' = HeapAfterUpdate(store, i, r.value[1])
                 /\ current' = Len(store) + 1
                 /\ origin' = Append(origin, i)
                 /\ lastOp' = [op |-> "update", input |-> i, reports |-> Len(post_mortems),
                               raised |-> "", result |-> Len(store) + 1]

-----------------------------------------------------------------------------
(* SpecConc: update_uplift_model one loop pass at a time, beside a reader *)

ConcBatches ==
    { <<>>, <<Report(-20)>>, <<Report(-1)>>, <<Report(-1), Report(3), Report(3)>> }

\* The (category, channel) pairs the two nested loops visit.
Entries(model) ==
    UNION {{<<category, channel>> : channel \in DOMAIN model.coefficients[category]} :
              category \in DOMAIN model.coefficients}

ConcIdle == upd = None /\ rd = None

\* Entry of update_uplift_model on the current model: the guard, the call of
\* calculate_model_adjustments and new_coefficients = {}.
UpdateCall ==
    /\ upd = None
    /\ \E post_mortems \in ConcBatches :
          IF post_mortems = <<>>
          THEN UNCHANGED upd
          ELSE /\ Len(store) <= MaxUpdates
               /\ upd' = Some([input           |-> current,
                               adjustments     |-> calculate_model_adjustments(post_mortems),
                               new_coefficients |-> [e \in {} |-> RInt(0)]])
    /\ UNCHANGED <<store, current, origin, lastOp, rd>>

\* One pass of the inner loop, for an entry not yet visited.
UpdateEntry ==
    /\ upd # None
    /\ LET f == upd[1]
           model == store[f.input]
       IN  \E e \in Entries(model) \ DOMAIN f.new_coefficients :
              LET coef     == model.coefficients[e[1]][e[2]]
                  factor   == FactorFor(f.adjustments, e[1], e[2])
                  adjusted == AdjustedCoefficient(coef, factor)
              IN  /\ upd' = Some([f EXCEPT !.new_coefficients =
                                     [k \in DOMAIN f.new_coefficients \cup {e} |->
                                         IF k = e THEN adjusted ELSE f.new_coefficients[k]]])
                  /\ store' = HeapAfterEntry(store, f.input, e[1], e[2], adjusted)
    /\ UNCHANGED <<current, origin, lastOp, rd>>

\* return UpliftModel(...); the caller makes the returned model the current one.
UpdateReturn ==
    /\ upd # None
    /\ LET f == upd[1]
           model == store[f.input]
       IN  /\ DOMAIN f.new_coefficients = Entries(model)
           /\ store' = HeapAfterUpdate(store, f.input,
                          [coefficients |->
                              [category \in DOMAIN model.coefficients |->
                                  [channel \in DOMAIN model.coefficients[category] |->
                                      f.new_coefficients[<<category, channel>>]]],
                           version      |-> NewVersion(model.version),
                           last_updated |-> NewLastUpdated(model)])
           /\ current' = Len(store) + 1
           /\ origin' = Append(origin, f.input)
    /\ upd' = None
    /\ UNCHANGED <<lastOp, rd>>

\* A reader takes the current model reference ...
ReadBegin ==
    /\ rd = None
    /\ rd' = Some([ref |-> current, seen |-> [e \in {} |-> RInt(0)]])
    /\ UNCHANGED <<store, current, origin, lastOp, upd>>

\* ... reads its coefficient map one entry at a time ...
ReadEntry ==
    /\ rd # None
    /\ LET r == rd[1]
           model == store[r.ref]
       IN  \E e \in Entries(model) \ DOMAIN r.seen :
              rd' = Some([r EXCEPT !.seen =
                             [k \in DOMAIN r.seen \cup {e} |->
                                 IF k = e THEN model.coefficients[e[1]][e[2]]
                                 ELSE r.seen[k]]])
    /\ UNCHANGED <<store, current, origin, lastOp, upd>>

\* ... and is done once it has read them all.
ReadEnd ==
    /\ rd # None
    /\ DOMAIN rd[1].seen = Entries(store[rd[1].ref])
    /\ rd' = None
    /\ UNCHANGED <<store, current, origin, lastOp, upd>>

-----------------------------------------------------------------------------
(* SpecBaseline: GET /baseline *)

MaxDays == 2         \* days are 1..MaxDays

Days == 1..MaxDays
Departments == {"TV", "GAMING"}
SalesChannels == {"online"}

\* One historical row per (date, department, channel) present in the data.
SalesRow(d, dep, ch) ==
    [date |-> d, department |-> dep, channel |-> ch,
     sales_value  |-> IF dep = "TV" THEN 100 ELSE 60,
     margin_value |-> IF dep = "TV" THEN 20 ELSE 15,
     units        |-> IF dep = "TV" THEN 5 ELSE 3]

SalesRowUniverse ==
    {SalesRow(d, dep, ch) : d \in Days, dep \in Departments, ch \in SalesChannels}

DayProjections ==
    { [sales |-> 160, margin |-> 35, units |-> 8],
      [sales |-> 100, margin |-> 20, units |-> 5] }

BaselineRequests ==
    {r \in [start_date : Days, end_date : Days,
            department : {None} \cup {Some(x) : x \in Departments},
            channel : {None} \cup {Some(x) : x \in SalesChannels}] :
        r.start_date <= r.end_date}

\* sum of f[x] over x in S
RECURSIVE SumOver(_, _)
SumOver(S, f) ==
    IF S = {} THEN 0
    ELSE LET x == CHOOSE y \in S : TRUE IN f[x] + SumOver(S \ {x}, f)

\* ForecastBaselineEngine.calculate_baseline: one projection per day of the
\* range, and totals that are the sums over those days.
calculate_baseline(start_date, end_date) ==
    LET range  == start_date..end_date
        Sales  == [d \in range |-> projection[d].sales]
        Margin == [d \in range |-> projection[d].margin]
        Units  == [d \in range |-> projection[d].units]
    IN  [date_range |-> [start_date |-> start_date, end_date |-> end_date],
         daily_projections |-> [d \in range |-> projection[d]],
         total_sales  |-> SumOver(range, Sales),
         total_margin |-> SumOver(range, Margin),
         total_units  |-> SumOver(range, Units)]

\* SalesDataTool.get_aggregated_sales(date_range, grain=["date"], filters):
\* the rows of the range that match every filter that is set.
get_aggregated_sales(start_date, end_date, filters) ==
    {r \in sales_rows :
        /\ r.date \in start_date..end_date
        /\ filters.department # None => r.department = filters.department[1]
        /\ filters.channel # None => r.channel = filters.channel[1]}

get_baseline(start_date, end_date, department, channel) ==
    LET df_filters == [department |-> department, channel |-> channel]
        baseline   == calculate_baseline(start_date, end_date)
        agg        == get_aggregated_sales(start_date, end_date, df_filters)
        SalesValue  == [r \in agg |-> r.sales_value]
        MarginValue == [r \in agg |-> r.margin_value]
        UnitsOf     == [r \in agg |-> r.units]
    IN  IF (department # None \/ channel # None) /\ agg # {}
        THEN [baseline EXCEPT !.total_sales  = SumOver(agg, SalesValue),
                              !.total_margin = SumOver(agg, MarginValue),
                              !.total_units  = SumOver(agg, UnitsOf)]
        ELSE baseline

BaseIdle ==
    /\ sales_rows = {}
    /\ projection = <<>>
    /\ bl_req = None
    /\ bl_resp = None

BaseInit ==
    /\ sales_rows \in SUBSET SalesRowUniverse
    /\ projection \in [Days -> DayProjections]
    /\ \E r \in BaselineRequests : bl_req = Some(r)
    /\ bl_resp = None

GetBaseline ==
    /\ bl_resp = None
    /\ bl_resp' = Some(get_baseline(bl_req[1].start_date, bl_req[1].end_date,
                                    bl_req[1].department, bl_req[1].channel))
    /\ UNCHANGED <<sales_rows, projection, bl_req>>

-----------------------------------------------------------------------------
(* SpecScenario: the scenario routes over the database *)

MaxScenarios == 2    \* scenario ids that requests name or create_scenario draws
MaxKpiRows == 2      \* rows of scenario_kpis

ScenarioIds == 1..MaxScenarios

\* scenario_agent.evaluate_scenario: a KPI that is a function of the scenario
\* alone (evaluation is reproducible); a scenario without departments has no
\* sales and no comparison.
scenario_agent_evaluate(scenario) ==
    LET n == Len(scenario.departments)
        d == scenario.discount_percentage
    IN  [total_sales  |-> n * 10 * (100 + d),
         total_margin |-> n * 10 * (30 - d),
         total_ebit   |-> n * 10 * (20 - d),
         total_units  |-> n * (100 + d),
         comparison_vs_baseline |->
             IF n = 0 THEN None
             ELSE Some([sales_delta |-> n * 10 * d, margin_delta |-> -(n * 10 * d),
                        ebit_delta |-> -(n * 10 * d), units_delta |-> n * d])]

\* scenario_agent.validate_scenario: a discount above the cap is reported as a
\* blocking issue in a report that carries is_valid and no status.
scenario_agent_validate(scenario, kpi) ==
    IF scenario.discount_percentage > 15
    THEN [status |-> None, is_valid |-> Some(FALSE),
          issues |-> <<[type |-> "discount_cap", severity |-> "blocking"]>>,
          overall_score |-> None]
    ELSE [status |-> Some("PASS"), is_valid |-> Some(TRUE), issues |-> <<>>,
          overall_score |-> Some(90)]

\* Request bodies of POST /create.  parameters is None or a dict.
CreateRequests ==
    { [brief |-> [month |-> "2024-10", start |-> 1, end |-> 2,
                  focus_departments |-> <<"TV">>],
       scenario_type |-> "balanced", parameters |-> None],
      [brief |-> [month |-> "2024-10", start |-> 1, end |-> 2,
                  focus_departments |-> <<"TV">>],
       scenario_type |-> "aggressive",
       parameters |-> Some([k \in {"departments", "channels", "discount_pct", "segments"} |->
                              CASE k = "departments" -> <<"TV", "GAMING">>
                                [] k = "channels" -> <<"online">>
                                [] k = "discount_pct" -> 20
                                [] k = "segments" -> <<"LOYAL">>])],
      [brief |-> [month |-> "2024-10", start |-> 2, end |-> 1,
                  focus_departments |-> <<>>],
       scenario_type |-> "balanced", parameters |-> None],
      [brief |-> [month |-> "2024-10", start |-> 1, end |-> 2,
                  focus_departments |-> <<"TV">>],
       scenario_type |-> "balanced",
       parameters |-> Some([k \in {"start_date", "end_date"} |->
                              IF k = "start_date" THEN 2 ELSE 1])] }

\* Request bodies of PUT /{scenario_id}.
UpdateRequests ==
    { [departments |-> None, channels |-> None, discount_pct |-> None, segments |-> None],
      [departments |-> None, channels |-> None, discount_pct |-> Some(25), segments |-> None],
      [departments |-> Some(<<"GAMING">>), channels |-> Some(<<"online", "store">>),
       discount_pct |-> None, segments |-> Some(<<>>)] }

\* params.get(key, default)
ParamGet(params, key, default) == IF key \in DOMAIN params THEN params[key] ELSE default

_build_default_scenario(brief, parameters, scenario_type, uuid) ==
    LET params == IF parameters = None THEN EmptyDict ELSE parameters[1]
        start_date == ParamGet(params, "start_date", brief.start)
        end_date   == ParamGet(params, "end_date", brief.end)
    IN  [id |-> Some(uuid),
         name |-> brief.month \o " Scenario",
         description |-> scenario_type,
         date_range |-> [start_date |-> start_date, end_date |-> end_date],
         departments |-> ParamGet(params, "departments",
                                  IF brief.focus_departments # <<>>
                                  THEN brief.focus_departments ELSE <<"TV", "Gaming">>),
         channels |-> ParamGet(params, "channels", <<"online", "store">>),
         discount_percentage |-> ParamGet(params, "discount_pct",
                                     ParamGet(params, "discount_percentage", 15)),
         segments |-> IF "segments" \in DOMAIN params THEN Some(params["segments"]) ELSE None]

\* [{...} for dept in departments for ch in channels]
MechanicsList(departments, channels, discount_pct, segments) ==
    [k \in 1..(Len(departments) * Len(channels)) |->
        [department   |-> departments[((k - 1) \div Len(channels)) + 1],
         channel      |-> channels[((k - 1) % Len(channels)) + 1],
         discount_pct |-> discount_pct,
         segments     |-> segments]]

\* segments or ["ALL"]
SegmentsOrAll(segments) ==
    IF segments = None \/ segments[1] = <<>> THEN <<"ALL">> ELSE segments[1]

_persist_scenario(scenario, scenario_type) ==
    [id |-> scenario.id[1],
     label |-> scenario.name,
     date_range_start |-> scenario.date_range.start_date,
     date_range_end |-> scenario.date_range.end_date,
     scenario_type |-> scenario_type,
     mechanics |-> MechanicsList(scenario.departments, scenario.channels,
                                 scenario.discount_percentage,
                                 SegmentsOrAll(scenario.segments))]

_persist_kpi(row_id, scenario_id, kpi, scenario) ==
    LET cmp == kpi.comparison_vs_baseline
    IN  [id |-> row_id,
         scenario_id |-> scenario_id,
         period_start |-> scenario.date_range.start_date,
         period_end |-> scenario.date_range.end_date,
         total_sales_value |-> kpi.total_sales,
         total_margin_value |-> kpi.total_margin,
         total_margin_pct |-> IF kpi.total_sales # 0
                              THEN Rat(kpi.total_margin * 100, kpi.total_sales)
                              ELSE RInt(0),
         total_ebit |-> kpi.total_ebit,
         total_units |-> kpi.total_units,
         sales_value_delta  |-> IF cmp # None THEN cmp[1].sales_delta ELSE 0,
         margin_value_delta |-> IF cmp # None THEN cmp[1].margin_delta ELSE 0,
         ebit_delta         |-> IF cmp # None THEN cmp[1].ebit_delta ELSE 0,
         units_delta        |-> IF cmp # None THEN cmp[1].units_delta ELSE 0]

_persist_validation(row_id, scenario_id, validation) ==
    [id |-> row_id,
     scenario_id |-> scenario_id,
     status |-> IF validation.status # None THEN validation.status[1]
                ELSE IF validation.is_valid = Some(TRUE) THEN "PASS" ELSE "WARN",
     issues |-> validation.issues,
     overall_score |-> validation.overall_score]

\* The constraints without uq_validation_scenario.
ConstraintsHold_NoUnique(d) ==
    /\ \A r \in d.scenarios : r.date_range_end >= r.date_range_start
    /\ \A r1, r2 \in d.scenarios : r1.id = r2.id => r1 = r2
    /\ \A k \in d.kpis : k.period_end >= k.period_start
    /\ \A v \in d.validations : v.status \in {"PASS", "WARN", "BLOCK"}
    /\ fk_enforced =>
          /\ \A k \in d.kpis : \E r \in d.scenarios : r.id = k.scenario_id
          /\ \A v \in d.validations : \E r \in d.scenarios : r.id = v.scenario_id

\* The constraints of db/models.py that a flush checks.
ConstraintsHold(d) ==
    /\ \A r \in d.scenarios : r.date_range_end >= r.date_range_start
    /\ \A r1, r2 \in d.scenarios : r1.id = r2.id => r1 = r2
    /\ \A k \in d.kpis : k.period_end >= k.period_start
    /\ \A v \in d.validations : v.status \in {"PASS", "WARN", "BLOCK"}
    /\ \A v1, v2 \in d.validations : v1.scenario_id = v2.scenario_id => v1 = v2
    /\ fk_enforced =>
          /\ \A k \in d.kpis : \E r \in d.scenarios : r.id = k.scenario_id
          /\ \A v \in d.validations : \E r \in d.scenarios : r.id = v.scenario_id

\* db.commit(): the pending rows are stored together, or an IntegrityError
\* rolls all of them back.
CommitOk(candidate) == ConstraintsHold(candidate)
Commit(candidate) == IF CommitOk(candidate) THEN candidate ELSE db

\* db.get(PromoScenario, scenario_id)
DbGet(scenario_id) == {r \in db.scenarios : r.id = scenario_id}

KpiRowsOf(d, scenario_id) == {k \in d.kpis : k.scenario_id = scenario_id}

\* The PromoScenario the routes rebuild from a stored row and a mechanics list;
\* channels = list({...}) is kept as the set it is built from.
ScenarioOfRow(row, mechanics) ==
    [id |-> Some(row.id),
     name |-> row.label,
     description |-> row.scenario_type,
     date_range |-> [start_date |-> row.date_range_start, end_date |-> row.date_range_end],
     departments |-> [k \in DOMAIN mechanics |-> mechanics[k].department],
     channels |-> {mechanics[k].channel : k \in DOMAIN mechanics},
     discount_percentage |-> IF mechanics # <<>> THEN mechanics[1].discount_pct ELSE 0]

\* str.title() of the scenario types
Title(scenario_type) ==
    CASE scenario_type = "balanced" -> "Balanced"
      [] scenario_type = "aggressive" -> "Aggressive"
      [] OTHER -> scenario_type

\* The "scenario" part of a response.  label is None or Some(label).
_serialize_scenario(scenario, label) ==
    [id |-> scenario.id,
     label |-> IF label # None THEN label[1] ELSE scenario.name,
     name |-> scenario.name,
     description |-> scenario.description,
     mechanics |-> MechanicsList(scenario.departments, scenario.channels,
                                 scenario.discount_percentage,
                                 SegmentsOrAll(scenario.segments)),
     date_range |-> [start |-> scenario.date_range.start_date,
                     end |-> scenario.date_range.end_date],
     departments |-> scenario.departments,
     channels |-> scenario.channels,
     discount_percentage |-> scenario.discount_percentage,
     segments |-> scenario.segments]

\* list({...}): the elements of a set in one of the orders iteration can give.
ListsOf(S) ==
    {l \in [1..Cardinality(S) -> S] : \A x \in S : \E i \in DOMAIN l : l[i] = x}

\* The request, its outcome and, where the model follows it, the request body
\* and the "scenario" of the response.
OutcomeOf(op, scenario_id, status, request, scenario) ==
    Some([op |-> op, scenario_id |-> scenario_id, status |-> status,
          kpis_before |-> KpiRowsOf(db, scenario_id),
          request |-> request, scenario |-> scenario])

Outcome(op, scenario_id, status) == OutcomeOf(op, scenario_id, status, None, None)

ScenInit ==
    /\ db = [scenarios |-> {}, kpis |-> {}, validations |-> {}]
    /\ next_uuid = 1
    /\ next_row = 1
    /\ fk_enforced \in BOOLEAN
    /\ sc_last = None
    /\ sc_eval = None

create_scenario ==
    \E payload \in CreateRequests :
        LET scenario == _build_default_scenario(payload.brief, payload.parameters,
                                                 payload.scenario_type, next_uuid)
            kpi == scenario_agent_evaluate(scenario)
            validation == scenario_agent_validate(scenario, kpi)
            row == _persist_scenario(scenario, payload.scenario_type)
            candidate ==
                [scenarios   |-> db.scenarios \cup {row},
                 kpis        |-> db.kpis \cup
                                   {_persist_kpi(next_row, scenario.id[1], kpi, scenario)},
                 validations |-> db.validations \cup
                                   {_persist_validation(next_row + 1, scenario.id[1],
                                                        validation)}]
        IN  /\ next_uuid <= MaxScenarios
            /\ Cardinality(db.kpis) < MaxKpiRows
            /\ db' = Commit(candidate)
            /\ sc_last' = IF CommitOk(candidate)
                          THEN OutcomeOf("create_scenario", next_uuid, 200, None,
                                         Some(_serialize_scenario(
                                                  scenario, Some(Title(payload.scenario_type)))))
                          ELSE Outcome("create_scenario", next_uuid, 500)
            /\ next_uuid' = IF CommitOk(candidate) THEN next_uuid + 1 ELSE next_uuid
            /\ next_row' = IF CommitOk(candidate) THEN next_row + 2 ELSE next_row
            /\ sc_eval' = Some(scenario)
            /\ UNCHANGED fk_enforced

get_scenario ==
    \E scenario_id \in ScenarioIds :
        /\ IF DbGet(scenario_id) = {}
           THEN sc_last' = Outcome("get_scenario", scenario_id, 404)
           ELSE LET row == CHOOSE r \in DbGet(scenario_id) : TRUE
                    built == ScenarioOfRow(row, row.mechanics)
                IN  \E channels \in ListsOf(built.channels) :
                        LET scenario == [id |-> built.id, name |-> built.name,
                                         description |-> built.description,
                                         date_range |-> built.date_range,
                                         departments |-> built.departments,
                                         channels |-> channels,
                                         discount_percentage |-> built.discount_percentage,
                                         segments |-> None]
                        IN  sc_last' = OutcomeOf("get_scenario", scenario_id, 200, None,
                                                 Some(_serialize_scenario(scenario, None)))
        /\ UNCHANGED <<db, next_uuid, next_row, fk_enforced, sc_eval>>

\* The mechanics update_scenario computes from the stored ones and the request.
UpdatedMechanics(mechanics, updated) ==
    IF \/ (updated.departments # None /\ updated.departments[1] # <<>>)
       \/ (updated.channels # None /\ updated.channels[1] # <<>>)
       \/ updated.discount_pct # None
       \/ updated.segments # None
    THEN LET depts == IF updated.departments # None /\ updated.departments[1] # <<>>
                      THEN updated.departments[1]
                      ELSE [k \in DOMAIN mechanics |-> mechanics[k].department]
             chans == IF updated.channels # None /\ updated.channels[1] # <<>>
                      THEN updated.channels[1]
                      ELSE [k \in DOMAIN mechanics |-> mechanics[k].channel]
             discount == IF updated.discount_pct # None THEN updated.discount_pct[1]
                         ELSE IF mechanics # <<>> THEN mechanics[1].discount_pct ELSE 0
             segs == IF updated.segments # None /\ updated.segments[1] # <<>>
                     THEN updated.segments[1]
                     ELSE IF mechanics # <<>> THEN mechanics[1].segments ELSE <<>>
         IN  MechanicsList(depts, chans, discount,
                           IF segs = <<>> THEN <<"ALL">> ELSE segs)
    ELSE mechanics

update_scenario ==
    \E scenario_id \in ScenarioIds, updated \in UpdateRequests :
        IF DbGet(scenario_id) = {}
        THEN /\ sc_last' = Outcome("update_scenario", scenario_id, 404)
             /\ UNCHANGED <<db, next_uuid, next_row, fk_enforced, sc_eval>>
        ELSE LET row == CHOOSE r \in DbGet(scenario_id) : TRUE
                 mechanics == UpdatedMechanics(row.mechanics, updated)
                 scenario == ScenarioOfRow(row, mechanics)
                 kpi == scenario_agent_evaluate(scenario)
                 validation == scenario_agent_validate(scenario, kpi)
                 candidate ==
                     [scenarios   |-> (db.scenarios \ {row}) \cup
                                          {[row EXCEPT !.mechanics = mechanics]},
                      kpis        |-> db.kpis \cup
                                          {_persist_kpi(next_row, row.id, kpi, scenario)},
                      validations |-> db.validations \cup
                                          {_persist_validation(next_row + 1, row.id,
                                                               validation)}]
             IN  /\ db' = Commit(candidate)
                 /\ sc_last' = OutcomeOf("update_scenario", scenario_id,
                                         IF CommitOk(candidate) THEN 200 ELSE 500,
                                         Some(updated), None)
                 /\ next_row' = IF CommitOk(candidate) THEN next_row + 2 ELSE next_row
                 /\ sc_eval' = Some(scenario)
                 /\ UNCHANGED <<next_uuid, fk_enforced>>

\* delete_scenario without the two bulk deletes of the dependent rows.
delete_scenario_RowOnly ==
    \E scenario_id \in ScenarioIds :
        IF DbGet(scenario_id) = {}
        THEN /\ sc_last' = Outcome("delete_scenario", scenario_id, 404)
             /\ UNCHANGED <<db, next_uuid, next_row, fk_enforced, sc_eval>>
        ELSE /\ db' = [db EXCEPT !.scenarios = db.scenarios \ DbGet(scenario_id)]
             /\ sc_last' = Outcome("delete_scenario", scenario_id, 200)
             /\ UNCHANGED <<next_uuid, next_row, fk_enforced, sc_eval>>

delete_scenario ==
    \E scenario_id \in ScenarioIds :
        IF DbGet(scenario_id) = {}
        THEN /\ sc_last' = Outcome("delete_scenario", scenario_id, 404)
             /\ UNCHANGED <<db, next_uuid, next_row, fk_enforced, sc_eval>>
        ELSE LET candidate ==
                     [scenarios   |-> db.scenarios \ DbGet(scenario_id),
                      kpis        |-> {k \in db.kpis : k.scenario_id # scenario_id},
                      validations |-> {v \in db.validations : v.scenario_id # scenario_id}]
             IN  /\ db' = Commit(candidate)
                 /\ sc_last' = Outcome("delete_scenario", scenario_id,
                                       IF CommitOk(candidate) THEN 200 ELSE 500)
                 /\ UNCHANGED <<next_uuid, next_row, fk_enforced, sc_eval>>

\* The body of POST /evaluate, which evaluate_scenario_by_id calls as well.
\* id_for_kpi and id_for_validation are the two values of
\* scenario.id or str(uuid.uuid4()).
EvaluateCandidate(scenario, id_for_kpi, id_for_validation, kpi, validation) ==
    [scenarios   |-> db.scenarios,
     kpis        |-> db.kpis \cup {_persist_kpi(next_row, id_for_kpi, kpi, scenario)},
     validations |-> db.validations \cup
                        {_persist_validation(next_row + 1, id_for_validation, validation)}]

\* Ids that uuid4 hands to rows of scenarios that were never stored.
AdHocUuid(n) == 100 + n

\* The id of the posted scenario is absent or an id the client has been given:
\* a client cannot name the uuid4 of a scenario that is not created yet.
evaluate_scenario ==
    \E id \in {None} \cup {Some(i) : i \in 1..(next_uuid - 1)} :
        LET scenario == [id |-> id, name |-> "adhoc", description |-> "adhoc",
                         date_range |-> [start_date |-> 1, end_date |-> 2],
                         departments |-> <<"TV">>, channels |-> {"online"},
                         discount_percentage |-> 15]
            kpi == scenario_agent_evaluate(scenario)
            validation == scenario_agent_validate(scenario, kpi)
            id_for_kpi == IF id # None THEN id[1] ELSE AdHocUuid(next_row)
            id_for_validation == IF id # None THEN id[1] ELSE AdHocUuid(next_row + 1)
            candidate == EvaluateCandidate(scenario, id_for_kpi, id_for_validation,
                                           kpi, validation)
        IN  /\ Cardinality(db.kpis) < MaxKpiRows
            /\ db' = Commit(candidate)
            /\ sc_last' = Outcome("evaluate_scenario", id_for_kpi,
                                  IF CommitOk(candidate) THEN 200 ELSE 500)
            /\ next_row' = IF CommitOk(candidate) THEN next_row + 2 ELSE next_row
            /\ sc_eval' = Some(scenario)
            /\ UNCHANGED <<next_uuid, fk_enforced>>

evaluate_scenario_by_id ==
    \E scenario_id \in ScenarioIds :
        IF DbGet(scenario_id) = {}
        THEN /\ sc_last' = Outcome("evaluate_scenario_by_id", scenario_id, 404)
             /\ UNCHANGED <<db, next_uuid, next_row, fk_enforced, sc_eval>>
        ELSE LET row == CHOOSE r \in DbGet(scenario_id) : TRUE
                 scenario == ScenarioOfRow(row, row.mechanics)
                 kpi == scenario_agent_evaluate(scenario)
                 validation == scenario_agent_validate(scenario, kpi)
                 candidate == EvaluateCandidate(scenario, row.id, row.id, kpi, validation)
             IN  /\ db' = Commit(candidate)
                 /\ sc_last' = Outcome("evaluate_scenario_by_id", scenario_id,
                                       IF CommitOk(candidate) THEN 200 ELSE 500)
                 /\ next_row' = IF CommitOk(candidate) THEN next_row + 2 ELSE next_row
                 /\ sc_eval' = Some(scenario)
                 /\ UNCHANGED <<next_uuid, fk_enforced>>

-----------------------------------------------------------------------------
(* SpecValidation: the validation row _persist_validation stores *)

MaxIssues == 3       \* issues of one validation report

Severities == {"blocking", "warning"}

IssueLists ==
    UNION {[1..n -> [type : {"rule"}, severity : Severities]] : n \in 0..MaxIssues}

HasSeverity(issues, severity) ==
    \E i \in DOMAIN issues : issues[i].severity = severity

\* The status the validation engine derives from the issues.
DerivedStatus(issues) ==
    IF HasSeverity(issues, "blocking") THEN "BLOCK"
    ELSE IF HasSeverity(issues, "warning") THEN "WARN" ELSE "PASS"

\* The reports _persist_validation is handed: reports that carry the derived
\* status, and backward-compatible reports that carry is_valid and no status.
ValidationInputs ==
    {[status |-> Some(DerivedStatus(issues)), is_valid |-> v, issues |-> issues,
      overall_score |-> score] :
        issues \in IssueLists, score \in {None, Some(90)},
        v \in {None, Some(TRUE)}}
    \cup
    {[status |-> None, is_valid |-> Some(~HasSeverity(issues, "blocking")),
      issues |-> issues, overall_score |-> score] :
        issues \in IssueLists, score \in {None, Some(90)}}

ValIdle ==
    /\ val_in = None
    /\ val_out = None

ValInit ==
    /\ \E v \in ValidationInputs : val_in = Some(v)
    /\ val_out = None

\* The route stores the row and returns the report it was handed.
PersistValidation ==
    /\ val_out = None
    /\ val_out' = Some([row |-> _persist_validation(1, 1, val_in[1]),
                        returned |-> val_in[1]])
    /\ UNCHANGED val_in

-----------------------------------------------------------------------------
(* SpecOpportunities: GET /opportunities *)

MaxOpportunities == 3    \* department rows of the aggregate

SalesValues == {-10, 0, 50, 100}

\* agg: one row per department (departments are numbered), in the order the
\* sales tool returns them.
Aggregates ==
    UNION {{[k \in 1..n |-> [department |-> k, sales_value |-> f[k]]] :
               f \in [1..n -> SalesValues]} : n \in 0..MaxOpportunities}

\* The PromoOpportunity built for row idx (0-based) of the aggregate.
Opportunity(idx, row) ==
    [id |-> idx + 1,
     focus_departments |-> <<row.department>>,
     estimated_potential |-> [sales_value |-> RMul(RInt(row.sales_value), Rat(12, 100))],
     priority |-> IF idx = 0 THEN "high" ELSE "medium"]

\* key=lambda o: (o.estimated_potential or {}).get("sales_value", 0)
SortKey(o) == o.estimated_potential.sales_value

\* list.sort(key, reverse=True) is stable: an element goes behind every
\* element whose key is not smaller than its own.
RECURSIVE InsertDescending(_, _)
InsertDescending(sorted, o) ==
    IF sorted = <<>> THEN <<o>>
    ELSE IF RLt(SortKey(Head(sorted)), SortKey(o)) THEN <<o>> \o sorted
    ELSE <<Head(sorted)>> \o InsertDescending(Tail(sorted), o)

RECURSIVE SortDescendingFrom(_, _)
SortDescendingFrom(sorted, rest) ==
    IF rest = <<>> THEN sorted
    ELSE SortDescendingFrom(InsertDescending(sorted, Head(rest)), Tail(rest))

opportunities_sort_Skipped(opportunities) == opportunities

opportunities_sort(opportunities) == SortDescendingFrom(<<>>, opportunities)

get_opportunities(agg) ==
    opportunities_sort([k \in DOMAIN agg |-> Opportunity(k - 1, agg[k])])

OppIdle ==
    /\ opp_agg = <<>>
    /\ opp_out = None

OppInit ==
    /\ opp_agg \in Aggregates
    /\ opp_out = None

GetOpportunities ==
    /\ opp_out = None
    /\ opp_out' = Some(get_opportunities(opp_agg))
    /\ UNCHANGED opp_agg

-----------------------------------------------------------------------------
(* SpecGaps: the gap percentages of GET /gaps and GET /dashboard *)

TargetKeys == {"sales_target", "margin_target", "units_target"}

\* A target is None or a number; a key may be missing from the dict.
TargetValues == {None, Some(RInt(0)), Some(RInt(100)), Some(RInt(-50))}

TargetDicts == UNION {[K -> TargetValues] : K \in SUBSET TargetKeys}

\* calculate_gap_vs_targets: the three gaps.
GapDicts ==
    {[sales_gap |-> RInt(g), margin_gap |-> RInt(g + 1), units_gap |-> RInt(g + 2)] :
        g \in {-30, 0, 40}}

\* targets.get(key): None for a missing key
TargetGet(targets, key) == IF key \in DOMAIN targets THEN targets[key] ELSE None

\* a / b on floats; b = 0 raises ZeroDivisionError, b = None raises TypeError
PyDiv(a, b) ==
    IF b = None THEN [raised |-> "TypeError", value |-> RInt(0)]
    ELSE IF b[1][1] = 0 THEN [raised |-> "ZeroDivisionError", value |-> RInt(0)]
    ELSE [raised |-> "", value |-> RDiv(a, b[1])]

EPSILON == Rat(1, 1000000)

\* targets.get("sales_target", 1) without the trailing or 1
TargetSalesOrOne_NoFallback(targets) ==
    IF "sales_target" \in DOMAIN targets THEN targets["sales_target"] ELSE Some(RInt(1))

\* targets.get("sales_target", 1) or 1
TargetSalesOrOne(targets) ==
    LET got == IF "sales_target" \in DOMAIN targets THEN targets["sales_target"]
               ELSE Some(RInt(1))
    IN  IF TruthyFloat(got) THEN got ELSE Some(RInt(1))

\* get_gaps: gap_percentage = {"sales": gaps["sales_gap"] / target_sales}
get_gaps(targets, gaps) ==
    LET q == PyDiv(gaps.sales_gap, TargetSalesOrOne(targets))
    IN  [raised |-> q.raised,
         gap_percentage |-> IF q.raised = "" THEN [k \in {"sales"} |-> q.value]
                            ELSE EmptyDict]

\* get_discovery_dashboard: one entry per target that is truthy.
get_discovery_dashboard(targets, gaps) ==
    LET sales_target  == TargetGet(targets, "sales_target")
        units_target  == TargetGet(targets, "units_target")
        margin_target == TargetGet(targets, "margin_target")
        keys == {k \in {"sales", "units", "margin"} :
                    \/ k = "sales" /\ TruthyFloat(sales_target)
                    \/ k = "units" /\ TruthyFloat(units_target)
                    \/ k = "margin" /\ TruthyFloat(margin_target)}
        q == [k \in keys |->
                 CASE k = "sales"  -> PyDiv(gaps.sales_gap, sales_target)
                   [] k = "units"  -> PyDiv(gaps.units_gap, units_target)
                   [] k = "margin" -> PyDiv(gaps.margin_gap,
                                            Some(PyMax(margin_target[1], EPSILON)))]
        failed == {k \in keys : q[k].raised # ""}
    IN  [raised |-> IF failed = {} THEN "" ELSE q[CHOOSE k \in failed : TRUE].raised,
         gap_percentage |-> IF failed = {} THEN [k \in keys |-> q[k].value]
                            ELSE EmptyDict]

GapIdle ==
    /\ gap_in = None
    /\ gap_out = None

GapInit ==
    /\ \E targets \in TargetDicts, gaps \in GapDicts :
           gap_in = Some([targets |-> targets, gaps |-> gaps])
    /\ gap_out = None

GetGaps ==
    /\ gap_out = None
    /\ gap_out' = Some([route |-> "get_gaps",
                        result |-> get_gaps(gap_in[1].targets, gap_in[1].gaps)])
    /\ UNCHANGED gap_in

GetDashboard ==
    /\ gap_out = None
    /\ gap_out' = Some([route |-> "get_discovery_dashboard",
                        result |-> get_discovery_dashboard(gap_in[1].targets,
                                                           gap_in[1].gaps)])
    /\ UNCHANGED gap_in

-----------------------------------------------------------------------------
(* SpecAuth: the API key store, the key routes and auth_guard *)

MaxTime == 2         \* the clock runs over 0..MaxTime
MaxKeyOps == 3       \* key-management calls in one behaviour

Names == {"a"}

\* Tokens are pairs: f"pk_live_{name}_{timestamp}" is <<name, timestamp>>, any
\* other string s is <<s, -1>>.
PkLive(name, timestamp) == <<name, timestamp>>
Literal(s) == <<s, -1>>

API_KEY_PREFIX == "Bearer "
DevTokens == {Literal(""), Literal("test"), Literal("dev"), Literal("local")}
EnvKeyToken == Literal("envkey")

\* timedelta(days=ttl_days), on the scale of the clock
timedelta(days) == days

add_key(data, name, role, ttl_days, now) ==
    LET key == PkLive(name, now)
        rec == [name |-> name, role |-> role, expires_at |-> now + timedelta(ttl_days),
                revoked |-> FALSE]
    IN  [data |-> [t \in DOMAIN data \cup {key} |-> IF t = key THEN rec ELSE data[t]],
         api_key |-> key,
         rec |-> rec]

get_key(data, token, now) ==
    IF token \notin DOMAIN data THEN None
    ELSE IF data[token].revoked THEN None
    ELSE IF data[token].expires_at < now THEN None
    ELSE Some([kind |-> "dict", role |-> data[token].role, api_key |-> token])

revoke_key(data, token) ==
    IF token \in DOMAIN data THEN [data EXCEPT ![token].revoked = TRUE] ELSE data

\* _API_KEYS.get(token) as dependencies.py sees it: an ApiKeyResponse object
ApiKeysGet(token) ==
    IF keys_shared /\ token \in api_keys_mem
    THEN Some([kind |-> "object", role |-> "read", api_key |-> token])
    ELSE None

DevTokenPassthrough_AnyEnvironment(token) == token \in DevTokens

DevTokenPassthrough(token) == environment = "development" /\ token \in DevTokens

OrPromoLead(required_role) == IF required_role # None THEN required_role ELSE Some("promo_lead")

\* The outcome of auth_guard: the response status and request.state.user_role.
auth_guard(authorization, required_role) ==
    IF authorization = None \/ authorization[1].prefix # API_KEY_PREFIX
    THEN IF environment = "development"
         THEN [status |-> 200, user_role |-> OrPromoLead(required_role), detail |-> ""]
         ELSE [status |-> 401, user_role |-> None, detail |-> "Unauthorized"]
    ELSE
    LET token   == authorization[1].rest
        mem     == ApiKeysGet(token)
        rec     == IF mem # None THEN mem ELSE get_key(key_store, token, clock)
        role    == IF rec # None /\ rec[1].kind = "dict" THEN Some(rec[1].role) ELSE None
    IN  IF DevTokenPassthrough(token)
        THEN [status |-> 200, user_role |-> OrPromoLead(required_role), detail |-> ""]
        ELSE IF env_key # None /\ token = env_key[1]
        THEN [status |-> 200, user_role |-> IF role # None THEN role ELSE Some("admin"),
              detail |-> ""]
        ELSE IF rec = None
        THEN [status |-> 401, user_role |-> None, detail |-> "Invalid API key"]
        ELSE IF required_role # None /\ rec[1].kind = "object"
        THEN [status |-> 500, user_role |-> None, detail |-> "AttributeError"]
        ELSE IF required_role # None /\ rec[1].role \notin {required_role[1], "admin"}
        THEN [status |-> 403, user_role |-> None, detail |-> "Insufficient role"]
        ELSE [status |-> 200, user_role |-> OrPromoLead(role), detail |-> ""]

AuthIdle ==
    /\ key_store = <<>>
    /\ api_keys_mem = {}
    /\ keys_shared = FALSE
    /\ environment = "development"
    /\ env_key = None
    /\ clock = 0
    /\ key_ops = 0
    /\ client_known = {}
    /\ revoked_log = {}
    /\ auth_last = None

AuthInit ==
    /\ key_store = <<>>
    /\ api_keys_mem = {}
    /\ keys_shared \in BOOLEAN
    /\ environment \in {"development", "production"}
    /\ env_key \in {None, Some(EnvKeyToken)}
    /\ clock = 0
    /\ key_ops = 0
    /\ client_known = {}
    /\ revoked_log = {}
    /\ auth_last = None

\* A second passes.
Tick ==
    /\ clock < MaxTime
    /\ clock' = clock + 1
    /\ UNCHANGED <<key_store, api_keys_mem, keys_shared, environment, env_key,
                   key_ops, client_known, revoked_log, auth_last>>

\* POST /api/v1/auth/api-keys, a route without dependencies.
create_api_key ==
    \E name \in Names, expires_in_days \in {0, 1} :
        /\ key_ops < MaxKeyOps
        /\ IF expires_in_days <= 0
           THEN UNCHANGED <<key_store, api_keys_mem, client_known, key_ops>>
           ELSE LET rec == add_key(key_store, name, "read", expires_in_days, clock)
                IN  /\ key_ops' = key_ops + 1
                    /\ key_store' = rec.data
                    /\ api_keys_mem' = api_keys_mem \cup {rec.api_key}
                    /\ client_known' = client_known \cup {rec.api_key}
        /\ UNCHANGED <<keys_shared, environment, env_key, clock, revoked_log, auth_last>>

\* DELETE /api/v1/auth/api-keys/{token}
delete_api_key ==
    \E token \in DOMAIN key_store \cup {Literal("bogus")} :
        /\ key_ops < MaxKeyOps
        /\ key_ops' = IF token \in DOMAIN key_store THEN key_ops + 1 ELSE key_ops
        /\ key_store' = revoke_key(key_store, token)
        /\ api_keys_mem' = api_keys_mem \ {token}
        /\ revoked_log' = IF token \in DOMAIN key_store
                           THEN revoked_log \cup {token} ELSE revoked_log
        /\ UNCHANGED <<keys_shared, environment, env_key, clock, client_known, auth_last>>

\* add_key called by an operator to store an admin key.
AddKey ==
    \E name \in Names :
        /\ key_ops < MaxKeyOps
        /\ key_ops' = key_ops + 1
        /\ key_store' = add_key(key_store, name, "admin", 1, clock).data
        /\ UNCHANGED <<api_keys_mem, keys_shared, environment, env_key, clock,
                       client_known, revoked_log, auth_last>>

\* The Authorization headers of requests: no header, another scheme, and
\* Bearer with a dev token, an unknown token, the configured key or a token
\* of the store.
Authorizations ==
    {None, Some([prefix |-> "Basic ", rest |-> Literal("x")])}
    \cup {Some([prefix |-> API_KEY_PREFIX, rest |-> t]) :
              t \in {Literal("test"), Literal("bogus"), EnvKeyToken} \cup DOMAIN key_store}

\* A request to a secured router: Depends(auth_guard).
SecuredRequest ==
    \E required_role \in {None, Some("read"), Some("admin")} :
        \E authorization \in Authorizations :
            /\ auth_last' = Some([authorization |-> authorization,
                                  required_role |-> required_role,
                                  result |-> auth_guard(authorization, required_role)])
            /\ UNCHANGED <<key_store, api_keys_mem, keys_shared, environment, env_key,
                           clock, key_ops, client_known, revoked_log>>

-----------------------------------------------------------------------------
(* Specifications *)

ScenIdle ==
    /\ db = [scenarios |-> {}, kpis |-> {}, validations |-> {}]
    /\ next_uuid = 1
    /\ next_row = 1
    /\ fk_enforced = FALSE
    /\ sc_last = None
    /\ sc_eval = None

(* SpecRateLimit, SpecRateLimitBackends: rate_limit_guard *)

MaxRlTicks == 2        \* the clock advances at most this many times
TickSeconds == 30      \* seconds per advance of the clock
MaxOverLimit == 2      \* requests a token's bucket counts beyond the limit
MaxAnonymousHits == 2  \* requests the IP bucket counts in one window

\* _RATE_LIMIT = {"window": 60, "limit": 100, "hits": {}}
window == 60
limit == 100

RlToken == "k1"
RlHost == "10.0.0.1"

\* The Authorization headers: none, Bearer with a token, Bearer with nothing
\* after the prefix, another scheme.
RlAuthorizations ==
    {None,
     Some([prefix |-> API_KEY_PREFIX, rest |-> RlToken]),
     Some([prefix |-> API_KEY_PREFIX, rest |-> ""]),
     Some([prefix |-> "Basic ", rest |-> RlToken])}

\* request.client
RlClients == {Some(RlHost)}

client_ip(client) == IF client # None THEN client[1] ELSE "unknown"

\* token: what follows "Bearer ", or None
RlTokenOf(authorization) ==
    IF authorization # None /\ authorization[1].prefix = API_KEY_PREFIX
    THEN Some(authorization[1].rest) ELSE None

\* bucket_key = token or client_ip: None and "" are falsy.
bucket_key(authorization, client) ==
    LET token == RlTokenOf(authorization)
    IN  IF token # None /\ token[1] # "" THEN token[1] ELSE client_ip(client)

WindowOver(now, start) == now - start >= window

\* Mutant: one request more passes before the limit is exceeded.
OverLimit_OffByOne(count) == count > limit + 1

OverLimit(count) == count > limit

\* The in-memory branch: setdefault, the window reset, the increment, the test.
memory_guard(hits, key, now) ==
    LET bucket  == IF key \in DOMAIN hits THEN hits[key] ELSE [start |-> now, count |-> 0]
        fresh   == IF WindowOver(now, bucket.start)
                   THEN [start |-> now, count |-> 0] ELSE bucket
        counted == [fresh EXCEPT !.count = @ + 1]
    IN  [hits   |-> [k \in DOMAIN hits \cup {key} |-> IF k = key THEN counted ELSE hits[k]],
         status |-> IF OverLimit(counted.count) THEN 429 ELSE 200]

\* A Redis key exists until its time to live has run out.
RedisAlive(redis, key, now) == key \in DOMAIN redis /\ now < redis[key].expire_at

\* The Redis branch: the pipeline INCR key, EXPIRE key window, and the test.
\* INCR of a missing key gives 1; EXPIRE sets the time to live anew.
redis_guard(redis, key, now) ==
    LET count == IF RedisAlive(redis, key, now) THEN redis[key].value + 1 ELSE 1
        rec   == [value |-> count, expire_at |-> now + window]
    IN  [redis  |-> [k \in DOMAIN redis \cup {key} |-> IF k = key THEN rec ELSE redis[k]],
         status |-> IF OverLimit(count) THEN 429 ELSE 200]

\* The window a request falls in: it starts with the first request of the
\* bucket and with the first request 60 seconds or more after its start.
WindowAfter(windows, key, now, status) ==
    LET admitted == IF status = 200 THEN 1 ELSE 0
        w == IF key \in DOMAIN windows /\ now - windows[key].start < window
             THEN [windows[key] EXCEPT !.seen = @ + 1, !.admitted = @ + admitted]
             ELSE [start |-> now, seen |-> 1, admitted |-> admitted]
    IN  [k \in DOMAIN windows \cup {key} |-> IF k = key THEN w ELSE windows[k]]

\* How many requests of one window the model follows for a request's bucket.
RequestBudget(authorization) ==
    LET token == RlTokenOf(authorization)
    IN  IF token # None /\ token[1] # "" THEN limit + MaxOverLimit ELSE MaxAnonymousHits

RlInit ==
    /\ rl_hits = <<>>
    /\ rl_redis = <<>>
    /\ rl_now = 0
    /\ rl_last = None
    /\ rl_window = <<>>

\* Time passes.
RlTick ==
    /\ rl_now < MaxRlTicks * TickSeconds
    /\ rl_now' = rl_now + TickSeconds
    /\ UNCHANGED <<rl_hits, rl_redis, rl_last, rl_window>>

\* rate_limit_guard without a Redis client.
MemoryRequest ==
    \E authorization \in RlAuthorizations, client \in RlClients :
        LET key == bucket_key(authorization, client)
            r   == memory_guard(rl_hits, key, rl_now)
        IN  /\ r.hits[key].count <= RequestBudget(authorization)
            /\ rl_hits' = r.hits
            /\ rl_last' = Some([key |-> key, now |-> rl_now, memory |-> r.status,
                                redis |-> 0])
            /\ rl_window' = WindowAfter(rl_window, key, rl_now, r.status)
            /\ UNCHANGED <<rl_redis, rl_now>>

\* The same request given to rate_limit_guard of a process without a Redis
\* client and to rate_limit_guard of a process with one.
BackendsRequest ==
    \E authorization \in {Some([prefix |-> API_KEY_PREFIX, rest |-> RlToken])},
       client \in RlClients :
        LET key == bucket_key(authorization, client)
            m   == memory_guard(rl_hits, key, rl_now)
            r   == redis_guard(rl_redis, key, rl_now)
        IN  /\ m.hits[key].count <= RequestBudget(authorization)
            /\ r.redis[key].value <= RequestBudget(authorization)
            /\ rl_hits' = m.hits
            /\ rl_redis' = r.redis
            /\ rl_last' = Some([key |-> key, now |-> rl_now, memory |-> m.status,
                                redis |-> r.status])
            /\ rl_window' = WindowAfter(rl_window, key, rl_now, m.status)
            /\ UNCHANGED rl_now

-----------------------------------------------------------------------------
(* SpecKeyStore: add_key and revoke_key of several callers, step by step *)

MaxCallers == 2      \* callers (requests, workers) using the store at once

Callers == 1..MaxCallers
KsNames == {"a", "b"}

KsReturned == [pc |-> "returned"]

KsIdle ==
    /\ ks_calls = <<>>
    /\ ks_added = {}

KsInit ==
    /\ ks_calls = [c \in Callers |-> KsReturned]
    /\ ks_added = {}

\* The names of the add_key calls made so far.
KsNamesUsed ==
    {t[1] : t \in ks_added}
    \cup {ks_calls[c].name : c \in {d \in Callers : ks_calls[d].pc = "add_loaded"}}

\* add_key, line 28: data = _load().  Each call brings a name of its own.
AddKeyLoad(c) ==
    \E name \in KsNames \ KsNamesUsed :
        /\ ks_calls[c] = KsReturned
        /\ key_ops < MaxKeyOps
        /\ key_ops' = key_ops + 1
        /\ ks_calls' = [ks_calls EXCEPT ![c] = [pc |-> "add_loaded", name |-> name,
                                                 data |-> key_store]]
        /\ UNCHANGED <<key_store, clock, revoked_log, ks_added>>

\* add_key, lines 29-36: the record goes into the loaded data, _save(data)
\* writes the whole of it, the token is returned.
AddKeySave(c) ==
    /\ ks_calls[c].pc = "add_loaded"
    /\ LET r == add_key(ks_calls[c].data, ks_calls[c].name, "read", 1, clock)
       IN  /\ key_store' = r.data
           /\ ks_added' = ks_added \cup {r.api_key}
    /\ ks_calls' = [ks_calls EXCEPT ![c] = KsReturned]
    /\ UNCHANGED <<clock, key_ops, revoked_log>>

\* revoke_key, line 59: data = _load().
RevokeKeyLoad(c) ==
    \E token \in ks_added :
        /\ ks_calls[c] = KsReturned
        /\ key_ops < MaxKeyOps
        /\ key_ops' = key_ops + 1
        /\ ks_calls' = [ks_calls EXCEPT ![c] = [pc |-> "revoke_loaded", token |-> token,
                                                 data |-> key_store]]
        /\ UNCHANGED <<key_store, clock, revoked_log, ks_added>>

\* revoke_key, lines 60-62: if the token is in the loaded data it is marked and
\* _save(data) writes the whole of it.
RevokeKeySave(c) ==
    /\ ks_calls[c].pc = "revoke_loaded"
    /\ LET data  == ks_calls[c].data
           token == ks_calls[c].token
       IN  IF token \in DOMAIN data
           THEN /\ key_store' = revoke_key(data, token)
                /\ revoked_log' = revoked_log \cup {token}
           ELSE UNCHANGED <<key_store, revoked_log>>
    /\ ks_calls' = [ks_calls EXCEPT ![c] = KsReturned]
    /\ UNCHANGED <<clock, key_ops, ks_added>>

\* A second passes.
KsTick ==
    /\ clock < MaxTime
    /\ clock' = clock + 1
    /\ UNCHANGED <<key_store, key_ops, revoked_log, ks_calls, ks_added>>

-----------------------------------------------------------------------------
LateIdle == RlInit /\ KsIdle

RestIdle == ValIdle /\ OppIdle /\ GapIdle /\ AuthIdle /\ LateIdle

CoreIdle == AdjIdle /\ LearnIdle /\ ConcIdle /\ BaseIdle /\ ScenIdle

InitAdjust == AdjInit /\ LearnIdle /\ ConcIdle /\ BaseIdle /\ ScenIdle /\ RestIdle
NextAdjust == Calculate /\ UNCHANGED <<learnVars, concVars, baseVars, scenVars, restVars>>
SpecAdjust == InitAdjust /\ [][NextAdjust]_vars

InitLearn == LearnInit /\ AdjIdle /\ ConcIdle /\ BaseIdle /\ ScenIdle /\ RestIdle
NextLearn ==
    \/ Propose /\ UNCHANGED <<adjVars, concVars, baseVars, scenVars, restVars>>
    \/ Update /\ UNCHANGED <<adjVars, concVars, baseVars, scenVars, restVars>>
SpecLearn == InitLearn /\ [][NextLearn]_vars

InitConc == LearnInit /\ AdjIdle /\ ConcIdle /\ BaseIdle /\ ScenIdle /\ RestIdle
NextConc ==
    \/ UpdateCall /\ UNCHANGED <<adjVars, baseVars, scenVars, restVars>>
    \/ UpdateEntry /\ UNCHANGED <<adjVars, baseVars, scenVars, restVars>>
    \/ UpdateReturn /\ UNCHANGED <<adjVars, baseVars, scenVars, restVars>>
    \/ ReadBegin /\ UNCHANGED <<adjVars, baseVars, scenVars, restVars>>
    \/ ReadEntry /\ UNCHANGED <<adjVars, baseVars, scenVars, restVars>>
    \/ ReadEnd /\ UNCHANGED <<adjVars, baseVars, scenVars, restVars>>
SpecConc == InitConc /\ [][NextConc]_vars

InitBaseline == BaseInit /\ AdjIdle /\ LearnIdle /\ ConcIdle /\ ScenIdle /\ RestIdle
NextBaseline == GetBaseline /\ UNCHANGED <<adjVars, learnVars, concVars, scenVars, restVars>>
SpecBaseline == InitBaseline /\ [][NextBaseline]_vars

InitScenario == ScenInit /\ AdjIdle /\ LearnIdle /\ ConcIdle /\ BaseIdle /\ RestIdle
NextScenario ==
    \/ create_scenario /\ UNCHANGED <<adjVars, learnVars, concVars, baseVars, restVars>>
    \/ get_scenario /\ UNCHANGED <<adjVars, learnVars, concVars, baseVars, restVars>>
    \/ update_scenario /\ UNCHANGED <<adjVars, learnVars, concVars, baseVars, restVars>>
    \/ delete_scenario /\ UNCHANGED <<adjVars, learnVars, concVars, baseVars, restVars>>
    \/ evaluate_scenario /\ UNCHANGED <<adjVars, learnVars, concVars, baseVars, restVars>>
    \/ evaluate_scenario_by_id /\ UNCHANGED <<adjVars, learnVars, concVars, baseVars, restVars>>
SpecScenario == InitScenario /\ [][NextScenario]_vars

InitValidation == ValInit /\ CoreIdle /\ OppIdle /\ GapIdle /\ AuthIdle /\ LateIdle
NextValidation == PersistValidation /\ UNCHANGED <<coreVars, oppVars, gapVars, authVars, lateVars>>
SpecValidation == InitValidation /\ [][NextValidation]_vars

InitOpportunities == OppInit /\ CoreIdle /\ ValIdle /\ GapIdle /\ AuthIdle /\ LateIdle
NextOpportunities == GetOpportunities /\ UNCHANGED <<coreVars, valVars, gapVars, authVars, lateVars>>
SpecOpportunities == InitOpportunities /\ [][NextOpportunities]_vars

InitGaps == GapInit /\ CoreIdle /\ ValIdle /\ OppIdle /\ AuthIdle /\ LateIdle
NextGaps ==
    \/ GetGaps /\ UNCHANGED <<coreVars, valVars, oppVars, authVars, lateVars>>
    \/ GetDashboard /\ UNCHANGED <<coreVars, valVars, oppVars, authVars, lateVars>>
SpecGaps == InitGaps /\ [][NextGaps]_vars

InitAuth == AuthInit /\ CoreIdle /\ ValIdle /\ OppIdle /\ GapIdle /\ LateIdle
NextAuth ==
    \/ Tick /\ UNCHANGED <<coreVars, valVars, oppVars, gapVars, lateVars>>
    \/ create_api_key /\ UNCHANGED <<coreVars, valVars, oppVars, gapVars, lateVars>>
    \/ delete_api_key /\ UNCHANGED <<coreVars, valVars, oppVars, gapVars, lateVars>>
    \/ AddKey /\ UNCHANGED <<coreVars, valVars, oppVars, gapVars, lateVars>>
    \/ SecuredRequest /\ UNCHANGED <<coreVars, valVars, oppVars, gapVars, lateVars>>
SpecAuth == InitAuth /\ [][NextAuth]_vars

OthersIdle == CoreIdle /\ ValIdle /\ OppIdle /\ GapIdle /\ AuthIdle
othersVars == <<coreVars, valVars, oppVars, gapVars, authVars>>

InitRateLimit == RlInit /\ KsIdle /\ OthersIdle
NextRateLimit ==
    \/ RlTick /\ UNCHANGED <<othersVars, ksVars>>
    \/ MemoryRequest /\ UNCHANGED <<othersVars, ksVars>>
SpecRateLimit == InitRateLimit /\ [][NextRateLimit]_vars

InitRateLimitBackends == RlInit /\ KsIdle /\ OthersIdle
NextRateLimitBackends ==
    \/ RlTick /\ UNCHANGED <<othersVars, ksVars>>
    \/ BackendsRequest /\ UNCHANGED <<othersVars, ksVars>>
SpecRateLimitBackends == InitRateLimitBackends /\ [][NextRateLimitBackends]_vars

ksFrame == <<coreVars, valVars, oppVars, gapVars, rlVars,
             api_keys_mem, keys_shared, environment, env_key, client_known, auth_last>>

InitKeyStore == KsInit /\ AuthIdle /\ RlInit /\ CoreIdle /\ ValIdle /\ OppIdle /\ GapIdle
NextKeyStore ==
    \/ KsTick /\ UNCHANGED ksFrame
    \/ \E c \in Callers : AddKeyLoad(c) /\ UNCHANGED ksFrame
    \/ \E c \in Callers : AddKeySave(c) /\ UNCHANGED ksFrame
    \/ \E c \in Callers : RevokeKeyLoad(c) /\ UNCHANGED ksFrame
    \/ \E c \in Callers : RevokeKeySave(c) /\ UNCHANGED ksFrame
SpecKeyStore == InitKeyStore /\ [][NextKeyStore]_vars

-----------------------------------------------------------------------------
(* Properties of the learning engine *)

UpdateReturned == lastOp.op = "update" /\ lastOp.raised = ""
OldModel == store[lastOp.input]
NewModel == store[lastOp.result]
SameKeys(a, b) ==
    /\ DOMAIN a.coefficients = DOMAIN b.coefficients
    /\ \A c \in DOMAIN a.coefficients :
          DOMAIN a.coefficients[c] = DOMAIN b.coefficients[c]

FloorOf(old) == RMul(Rat(8, 10), old)
CapOf(old) == RMul(Rat(12, 10), old)

\* C1 as stated: after update_uplift_model returned, every coefficient c of the
\* new model satisfies 0.8 * old <= c <= 1.2 * old, whatever the sign of old.
C1_WithinFloorCap ==
    UpdateReturned =>
        /\ SameKeys(OldModel, NewModel)
        /\ \A e \in Entries(OldModel) :
              LET old == OldModel.coefficients[e[1]][e[2]]
                  new == NewModel.coefficients[e[1]][e[2]]
              IN  RLe(FloorOf(old), new) /\ RLe(new, CapOf(old))

\* C1 amended: every coefficient of the new model lies between 0.8 * old and
\* 1.2 * old: in [0.8 * old, 1.2 * old] for old >= 0 and in
\* [1.2 * old, 0.8 * old] for old < 0.
C1_BetweenFloorCap ==
    UpdateReturned =>
        /\ SameKeys(OldModel, NewModel)
        /\ \A e \in Entries(OldModel) :
              LET old == OldModel.coefficients[e[1]][e[2]]
                  new == NewModel.coefficients[e[1]][e[2]]
              IN  IF old[1] >= 0
                  THEN RLe(FloorOf(old), new) /\ RLe(new, CapOf(old))
                  ELSE RLe(CapOf(old), new) /\ RLe(new, FloorOf(old))

\* An update returned a model that has a negative, a zero and a changed
\* positive coefficient.
C1_Witness ==
    /\ UpdateReturned
    /\ \E e \in Entries(OldModel) : OldModel.coefficients[e[1]][e[2]][1] < 0
    /\ \E e \in Entries(OldModel) : OldModel.coefficients[e[1]][e[2]][1] = 0
    /\ \E e \in Entries(OldModel) :
          /\ OldModel.coefficients[e[1]][e[2]][1] > 0
          /\ NewModel.coefficients[e[1]][e[2]] # OldModel.coefficients[e[1]][e[2]]

\* The integer error values the reports of adj_in carry, in order.
RECURSIVE CarriedErrors(_)
CarriedErrors(reports) ==
    IF reports = <<>> THEN <<>>
    ELSE LET fa == reports[1].forecast_accuracy
         IN  IF fa # None /\ PCT_KEY \in DOMAIN fa[1]
             THEN <<fa[1][PCT_KEY][1]>> \o CarriedErrors(Tail(reports))
             ELSE CarriedErrors(Tail(reports))

RECURSIVE IntSum(_)
IntSum(s) == IF s = <<>> THEN 0 ELSE s[1] + IntSum(Tail(s))

Calculated == adj_out # None
GlobalOut == adj_out[1]["global"]

\* C2 as stated: when every report carries total_sales_pct_error = -20, the
\* global factor is below 1.0 and equals 0.8.
C2_OverForecastGivesFloor ==
    (/\ Calculated
     /\ adj_in # <<>>
     /\ \A i \in DOMAIN adj_in : adj_in[i] = Report(-20))
    => (RLt(GlobalOut, RInt(1)) /\ GlobalOut = Rat(8, 10))

C4_OneVersionOneCoefficientMap ==
    \A i, j \in 1..Len(store) :
        (origin[i] # 0 /\ origin[j] # 0 /\ store[i].version = store[j].version)
            => store[i].coefficients = store[j].coefficients

\* C5: no step changes or removes a stored model; calculate_model_adjustments
\* leaves the heap and the current reference alone; the current reference only
\* moves when update_uplift_model returns, and then to the new model.
C5_NoInPlaceMutation ==
    [][/\ Len(store') >= Len(store)
       /\ \A i \in 1..Len(store) : store'[i] = store[i]
       /\ lastOp'.op = "calculate" => (store' = store /\ current' = current)
       /\ (lastOp'.op = "update" /\ lastOp'.raised = "")
             => /\ Len(store') = Len(store) + 1
                /\ lastOp'.result = Len(store')
                /\ lastOp'.input \in 1..Len(store)
       /\ current' # current
             => (lastOp'.op = "update" /\ lastOp'.raised = "" /\ current' = lastOp'.result)
      ]_vars

\* Two updates have returned, the second one applied to a model that differs
\* from its result.
C5_Witness ==
    /\ UpdateReturned
    /\ Len(store) = 3
    /\ OldModel.coefficients # NewModel.coefficients

\* C7: a learned model's version is its input's version followed by
\* "-learned", differs from the version of every model it descends from, and
\* its last_updated is the input's.
RECURSIVE Ancestors(_)
Ancestors(i) == IF origin[i] = 0 THEN {} ELSE {origin[i]} \cup Ancestors(origin[i])

C7_VersionDerivedLastUpdatedCarried ==
    \A i \in 1..Len(store) :
        origin[i] # 0 =>
            /\ store[i].version = store[origin[i]].version \o "-learned"
            /\ store[i].last_updated = store[origin[i]].last_updated
            /\ \A a \in Ancestors(i) : store[a].version # store[i].version

\* A chain of two successive updates exists.
C7_Witness ==
    /\ Len(store) = 3
    /\ origin[3] = 2
    /\ origin[2] = 1

\* C8: for the empty list calculate_model_adjustments returns {"global": 1.0}
\* and nothing else.
C8_EmptyListGivesDefault ==
    (Calculated /\ adj_in = <<>>) => adj_out[1] = [k \in {"global"} |-> <<1, 1>>]

\* The call on the empty list has returned.
C8_Witness == Calculated /\ adj_in = <<>>

\* C6: whatever a reader has read so far is the content of one complete model:
\* the model the running update was given, or a model some update returned.
C6_ReaderSeesOneModel ==
    rd # None =>
        \E i \in 1..Len(store) :
            /\ (i = 1 \/ origin[i] # 0)
            /\ \A e \in DOMAIN rd[1].seen :
                  rd[1].seen[e] = store[i].coefficients[e[1]][e[2]]

\* A reader is half way through the model an update is half way through.
C6_Witness ==
    /\ rd # None
    /\ upd # None
    /\ rd[1].ref = upd[1].input
    /\ Cardinality(DOMAIN rd[1].seen) = 1
    /\ Cardinality(DOMAIN upd[1].new_coefficients) = 2
    /\ \E e \in DOMAIN upd[1].new_coefficients :
          upd[1].new_coefficients[e] # store[upd[1].input].coefficients[e[1]][e[2]]

-----------------------------------------------------------------------------
(* Properties of GET /baseline *)

\* C9 as stated: the totals of every returned baseline are the sums of its
\* daily projections, with or without a department/channel filter.
C9_TotalsAreSumsOfDailyProjections ==
    bl_resp # None =>
        LET b == bl_resp[1]
            Sales  == [d \in DOMAIN b.daily_projections |-> b.daily_projections[d].sales]
            Margin == [d \in DOMAIN b.daily_projections |-> b.daily_projections[d].margin]
            Units  == [d \in DOMAIN b.daily_projections |-> b.daily_projections[d].units]
        IN  /\ b.total_sales = SumOver(DOMAIN b.daily_projections, Sales)
            /\ b.total_margin = SumOver(DOMAIN b.daily_projections, Margin)
            /\ b.total_units = SumOver(DOMAIN b.daily_projections, Units)

-----------------------------------------------------------------------------
(* Properties of the scenario routes *)

Reevaluated ==
    /\ sc_last # None
    /\ sc_last[1].op \in {"update_scenario", "evaluate_scenario_by_id"}
    /\ sc_last[1].status # 404

\* C10 as stated: re-evaluating a stored scenario (update_scenario,
\* evaluate_scenario_by_id) leaves every KPI row of the scenario as it was and
\* adds a new one.
C10_ReevaluationAddsKpiRow ==
    Reevaluated =>
        LET now == KpiRowsOf(db, sc_last[1].scenario_id)
        IN  /\ sc_last[1].kpis_before \subseteq now
            /\ Cardinality(now) = Cardinality(sc_last[1].kpis_before) + 1

-----------------------------------------------------------------------------
(* Properties of the stored validation report *)

\* C12 as stated: the stored row and the returned report have a status in
\* {PASS, WARN, BLOCK}; the status is BLOCK iff some issue is blocking and
\* WARN iff no issue is blocking and some issue is a warning, also when the
\* status comes from the is_valid fallback.
C12_StatusMatchesIssues ==
    val_out # None =>
        LET row == val_out[1].row
        IN  /\ row.status \in {"PASS", "WARN", "BLOCK"}
            /\ val_out[1].returned.status \in {Some("PASS"), Some("WARN"), Some("BLOCK")}
            /\ row.status = "BLOCK" <=> HasSeverity(row.issues, "blocking")
            /\ row.status = "WARN" <=>
                   (~HasSeverity(row.issues, "blocking") /\ HasSeverity(row.issues, "warning"))

-----------------------------------------------------------------------------
(* Properties of scenario date ranges *)

\* C13 as stated: every scenario that was built and handed to the evaluation,
\* and every stored scenario and KPI row, has end_date >= start_date.
C13_DateRangesOrdered ==
    /\ sc_eval # None =>
           sc_eval[1].date_range.end_date >= sc_eval[1].date_range.start_date
    /\ \A r \in db.scenarios : r.date_range_end >= r.date_range_start
    /\ \A k \in db.kpis : k.period_end >= k.period_start

-----------------------------------------------------------------------------
(* Properties of scenario retrieval *)

ScenarioRows(d, id) == {r \in d.scenarios : r.id = id}

Deleted(last, id) ==
    /\ last # None
    /\ last[1].op = "delete_scenario"
    /\ last[1].scenario_id = id
    /\ last[1].status = 200

\* C14: a successful create_scenario stores its scenario; a stored scenario
\* stays stored, and get_scenario answers 200 for it, in every step that is
\* not its delete_scenario; delete_scenario leaves no scenario, KPI or
\* validation row of the id; the id of a deleted scenario is never stored
\* again, and get_scenario answers 404 exactly for the ids that are not stored.
C14_RetrievableUntilDeleted ==
    [][\A id \in ScenarioIds :
          /\ (sc_last' # None /\ sc_last'[1].op = "create_scenario"
                 /\ sc_last'[1].scenario_id = id /\ sc_last'[1].status = 200)
                => ScenarioRows(db', id) # {}
          /\ (ScenarioRows(db, id) # {} /\ ~Deleted(sc_last', id))
                => ScenarioRows(db', id) # {}
          /\ (ScenarioRows(db, id) # {} /\ Deleted(sc_last', id))
                => /\ ScenarioRows(db', id) = {}
                   /\ KpiRowsOf(db', id) = {}
                   /\ \A v \in db'.validations : v.scenario_id # id
          /\ (ScenarioRows(db, id) = {} /\ id < next_uuid)
                => ScenarioRows(db', id) = {}
          /\ (sc_last' # None /\ sc_last'[1].op = "get_scenario"
                 /\ sc_last'[1].scenario_id = id)
                => (sc_last'[1].status = 200 <=> ScenarioRows(db, id) # {})
                   /\ (sc_last'[1].status = 404 <=> ScenarioRows(db, id) = {})]_vars

\* A created scenario has been deleted and get_scenario has been asked for it.
C14_Witness ==
    /\ sc_last # None
    /\ sc_last[1].op = "get_scenario"
    /\ sc_last[1].status = 404
    /\ sc_last[1].scenario_id < next_uuid
    /\ db.scenarios # {}

-----------------------------------------------------------------------------
(* Properties of the discovery routes *)

\* C15: the list get_opportunities returns holds one opportunity per
\* department row and is in non-increasing order of
\* estimated_potential.sales_value.
C15_OpportunitiesSortedDescending ==
    opp_out # None =>
        LET out == opp_out[1]
        IN  /\ Len(out) = Len(opp_agg)
            /\ {out[i].id : i \in DOMAIN out} = DOMAIN opp_agg
            /\ \A i \in DOMAIN out :
                  SortKey(out[i]) = RMul(RInt(opp_agg[out[i].id].sales_value), Rat(12, 100))
            /\ \A i \in 1..(Len(out) - 1) : RLe(SortKey(out[i + 1]), SortKey(out[i]))

\* The call returned a list of MaxOpportunities rows that the sort reordered.
C15_Witness ==
    /\ opp_out # None
    /\ Len(opp_out[1]) >= 3
    /\ opp_out[1][1].id # 1
    /\ \E i, j \in DOMAIN opp_agg : opp_agg[i].sales_value = opp_agg[j].sales_value /\ i # j

GapTarget(key) == TargetGet(gap_in[1].targets, key)

-----------------------------------------------------------------------------
(* Properties of auth_guard and the API key store *)

\* A step in which auth_guard answered a request: auth_last' is its outcome in
\* the current state of the key store, the clock and the environment.
AuthAnswered == auth_last' # auth_last

IsBearer(authorization) ==
    authorization # None /\ authorization[1].prefix = "Bearer "

IsConfiguredKey(token) == env_key # None /\ token = env_key[1]

\* A key issued and still usable: stored, not revoked and not expired, or held
\* in the issuing process's memory.
IsKnownKey(token) ==
    \/ /\ token \in DOMAIN key_store
       /\ ~key_store[token].revoked
       /\ key_store[token].expires_at >= clock
    \/ keys_shared /\ token \in api_keys_mem

\* C17: outside development auth_guard answers 401 and sets no role when the
\* Authorization header is missing or is not a Bearer header, and when the
\* token is neither the configured API_KEY nor a known key; nothing is
\* admitted without a Bearer token that is one of the two.
C17_BearerRequiredOutsideDevelopment ==
    [][(AuthAnswered /\ environment # "development") =>
          LET a == auth_last'[1]
              bearer == IsBearer(a.authorization)
              token == a.authorization[1].rest
          IN  /\ ~bearer => (a.result.status = 401 /\ a.result.user_role = None)
              /\ (bearer /\ ~IsConfiguredKey(token) /\ ~IsKnownKey(token)) =>
                    (a.result.status = 401 /\ a.result.user_role = None)
              /\ a.result.status = 200 =>
                    (bearer /\ (IsConfiguredKey(token) \/ IsKnownKey(token)))]_vars

\* Outside development the token "test" has been refused while a key is stored.
C17_Witness ==
    /\ auth_last # None
    /\ environment = "production"
    /\ IsBearer(auth_last[1].authorization)
    /\ auth_last[1].authorization[1].rest = Literal("test")
    /\ auth_last[1].result.status = 401
    /\ key_store # <<>>

\* C18 as stated: get_key returns None for every stored token revoke_key has
\* run for, whatever calls followed.
C18_RevocationPermanent ==
    \A t \in revoked_log : get_key(key_store, t, clock) = None

\* C19 as stated: outside development, with a required role, a request is
\* admitted only if the role recorded for its token is the required role or
\* admin (the configured API_KEY counts as admin), a known key with another
\* role gets 403, and the role attached for an admitted stored key is the
\* role recorded for that key.
C19_RoleCheckedAndAttached ==
    [][(AuthAnswered /\ environment # "development"
          /\ IsBearer(auth_last'[1].authorization)) =>
          LET a == auth_last'[1]
              token == a.authorization[1].rest
              recorded == IF token \in DOMAIN key_store THEN key_store[token].role
                          ELSE "admin"
          IN  /\ (a.required_role # None /\ a.result.status = 200) =>
                    recorded \in {a.required_role[1], "admin"}
              /\ (a.required_role # None /\ IsKnownKey(token) /\ ~IsConfiguredKey(token)
                    /\ recorded \notin {a.required_role[1], "admin"}) =>
                    a.result.status = 403
              /\ (a.result.status = 200 /\ token \in DOMAIN key_store) =>
                    a.result.user_role = Some(recorded)]_vars

\* C20 as stated: outside development, no request that carries no header,
\* another scheme, a guessed token or a token an API response handed out is
\* admitted.
C20_KeylessClientNeverAdmitted ==
    [][(AuthAnswered /\ environment # "development") =>
          LET a == auth_last'[1]
              clientCanSend ==
                  \/ ~IsBearer(a.authorization)
                  \/ a.authorization[1].rest \in
                        client_known \cup {Literal("test"), Literal("bogus")}
          IN  clientCanSend => a.result.status # 200]_vars

-----------------------------------------------------------------------------
(* Properties of update_uplift_model's input guard (SpecLearn) *)

\* The call that has just returned or raised was given no reports or no model.
GivenNothing == lastOp.op = "update" /\ (lastOp.reports = 0 \/ lastOp.input = 0)

\* C26: update_uplift_model given an empty post-mortem list or no current model
\* raises an error and returns no model: the call adds no model to the heap,
\* the caller's current model stays, and every stored model, the input
\* included, is what it was before the call.
C26_MissingInputsRaise ==
    [][ (lastOp' # lastOp /\ lastOp'.op = "update"
            /\ (lastOp'.reports = 0 \/ lastOp'.input = 0))
        => /\ lastOp'.raised = "ValueError"
           /\ lastOp'.result = 0
           /\ store' = store
           /\ current' = current
           /\ origin' = origin ]_vars

\* Both cases have happened on a heap that already holds a learned model: the
\* last call raised, and it was given the empty list with a model.
C26_Witness ==
    /\ GivenNothing
    /\ lastOp.reports = 0
    /\ lastOp.input = Len(store)
    /\ Len(store) >= 2
    /\ lastOp.raised = "ValueError"

-----------------------------------------------------------------------------
(* Properties of the rate limiter (SpecRateLimit, SpecRateLimitBackends) *)

\* rate_limit_guard has just answered a request.
RlAnswered == rl_window' # rl_window

\* C21: in the in-memory limiter, of the requests of one bucket key that fall
\* in one 60-second window (the window opens with the bucket's first request
\* and with its first request 60 seconds or more after the opening) at most
\* 100 are admitted, the 101st and every later one is answered 429, and a
\* request leaves the bucket of every other key as it was.
C21_WindowAdmitsAtMostLimit ==
    [][ RlAnswered =>
          LET key == rl_last'[1].key
              w   == rl_window'[key]
          IN  /\ w.admitted <= limit
              /\ w.seen > limit => rl_last'[1].memory = 429
              /\ w.seen <= limit => rl_last'[1].memory = 200
              /\ \A k \in DOMAIN rl_hits \ {key} :
                     k \in DOMAIN rl_hits' /\ rl_hits'[k] = rl_hits[k] ]_vars

\* A bucket's 101st request of a window was rejected while the other bucket
\* holds a count, after an earlier window of that bucket had closed.
C21_Witness ==
    /\ rl_last # None
    /\ rl_last[1].memory = 429
    /\ rl_last[1].key = RlToken
    /\ rl_window[RlToken].seen = limit + 1
    /\ rl_window[RlToken].admitted = limit
    /\ rl_window[RlToken].start > 0
    /\ RlHost \in DOMAIN rl_hits
    /\ rl_hits[RlHost].count = MaxAnonymousHits

\* C22 as stated: the Redis-backed and the in-memory limiter give every
\* request of every timed sequence the same answer, and a request that opens a
\* new window, 60 seconds or more after the bucket's window began, is admitted
\* by both.
C22_BackendsAgree ==
    rl_last # None /\ rl_last[1].redis # 0 =>
        /\ rl_last[1].redis = rl_last[1].memory
        /\ rl_window[rl_last[1].key].seen = 1 => rl_last[1].redis = 200

-----------------------------------------------------------------------------
(* Properties of the key store under concurrent calls (SpecKeyStore) *)

AllReturned == \A c \in Callers : ks_calls[c] = KsReturned

\* C23 as stated: once every add_key and revoke_key call has returned, every
\* token add_key returned is in the store and every token revoke_key marked is
\* stored as revoked.
C23_NoLostUpdate ==
    AllReturned =>
        /\ \A t \in ks_added : t \in DOMAIN key_store
        /\ \A t \in revoked_log : t \in DOMAIN key_store /\ key_store[t].revoked

-----------------------------------------------------------------------------
(* Properties of the scenario payloads (SpecScenario) *)

\* The (department, channel) pairs of a mechanics list, in order.
Pairs(mechanics) ==
    [k \in DOMAIN mechanics |-> <<mechanics[k].department, mechanics[k].channel>>]

Elements(l) == {l[k] : k \in DOMAIN l}

\* get_scenario answers for the scenario create_scenario has just stored.
CreateThenGet ==
    /\ sc_last # None
    /\ sc_last[1].op = "create_scenario"
    /\ sc_last[1].status = 200
    /\ sc_last'[1].op = "get_scenario"
    /\ sc_last'[1].scenario_id = sc_last[1].scenario_id

\* C24 as stated: get_scenario right after create_scenario returns the
\* department list the scenario was created with, its channels as a set, and
\* as mechanics exactly the |D| * |C| pairs create_scenario returned and stored.
C24_CreateGetRoundTrip ==
    [][ CreateThenGet =>
          LET created == sc_last[1].scenario[1]
              got     == sc_last'[1].scenario[1]
              row     == CHOOSE r \in DbGet(sc_last[1].scenario_id) : TRUE
          IN  /\ sc_last'[1].status = 200
              /\ got.departments = created.departments
              /\ Elements(got.channels) = Elements(created.channels)
              /\ Len(got.mechanics) = Len(created.departments) * Len(created.channels)
              /\ Elements(Pairs(got.mechanics)) = Elements(Pairs(created.mechanics))
              /\ Pairs(created.mechanics) = Pairs(row.mechanics) ]_vars

\* update_scenario has just handled a request that sets discount_pct and
\* nothing else, for a stored scenario.
DiscountOnlyUpdate ==
    /\ sc_last' # sc_last
    /\ sc_last'[1].op = "update_scenario"
    /\ sc_last'[1].status # 404
    /\ sc_last'[1].request[1].discount_pct # None
    /\ sc_last'[1].request[1].departments = None
    /\ sc_last'[1].request[1].channels = None
    /\ sc_last'[1].request[1].segments = None

\* C25 as stated: an update that sets only discount_pct gives every stored
\* mechanic of the scenario the new discount and leaves the stored
\* (department, channel) pairs, their number and their order as they were,
\* however many such updates came before.
C25_DiscountOnlyUpdateKeepsMechanics ==
    [][ DiscountOnlyUpdate =>
          LET id     == sc_last'[1].scenario_id
              before == CHOOSE r \in db.scenarios : r.id = id
              after  == {r \in db'.scenarios : r.id = id}
          IN  /\ after # {}
              /\ \A r \in after :
                     /\ Pairs(r.mechanics) = Pairs(before.mechanics)
                     /\ \A k \in DOMAIN r.mechanics :
                            r.mechanics[k].discount_pct
                                = sc_last'[1].request[1].discount_pct[1] ]_vars

====
